---- MODULE Spec2Model ----
(***************************************************************************)
(* Model of the unified-theme browser runtime:                             *)
(*   src/src/utilities/theme-manager.js  lines 1-388   class UnifiedTheme   *)
(*                                        and its auto-initialize block     *)
(*   src/src/utilities/theme-manager.js  lines 389-488 the bundle entry     *)
(*   src/unnamed/part_001                class AnimationUtils               *)
(* The page is one browser main thread: every action below is one task of  *)
(* the event loop (a module body, an event dispatch, a timer callback, a   *)
(* frame callback, a host call) and runs to completion.                    *)
(***************************************************************************)
EXTENDS Integers, Sequences, FiniteSets, Bags, TLC

VARIABLES
    \* ---- page load
    loadpc,              \* which module bodies have run: "start", "tm", "done"
    readyState,          \* document.readyState: "loading" or "interactive"
    dclListeners,        \* DOMContentLoaded callbacks registered on document
    \* ---- UnifiedTheme instances and what they share
    insts,               \* the instances constructed so far, in order
    windowUnifiedTheme,  \* window.unifiedTheme: index into insts, 0 = unset
    dataTheme,           \* documentElement's data-theme attribute
    darkClass,           \* documentElement.classList.contains('dark')
    storage,             \* localStorage: key -> value
    docClick,            \* click listeners on document, in registration order
    btnListeners,        \* click listeners on each data-theme-toggle button
    mediaListeners,      \* 'change' listeners on the prefers-color-scheme query
    events,              \* themeChanged events dispatched by the last task
    \* ---- environment
    prefersDark,         \* matchMedia('(prefers-color-scheme: dark)').matches
    btnPresent,          \* data-theme-toggle buttons currently in the document
    \* ---- dropdown widgets ([data-dropdown] elements)
    dropdownOpen,        \* the dropdowns whose classList contains 'open'
    ariaExpanded,        \* each dropdown's aria-expanded attribute
    \* ---- tabs ([data-tab] elements) and tab panels ([data-tab-panel])
    tabActive,           \* the tabs whose classList contains 'active'
    ariaSelected,        \* each tab's aria-selected attribute
    panelDisplay,        \* each panel's inline style.display
    panelAriaHidden,     \* each panel's aria-hidden attribute
    \* ---- notifications created by notify(), timers, the clock
    notifs,              \* the notification elements created so far, in order
    containers,          \* positions whose #notifications-<position> container exists
    timers,              \* pending setTimeout callbacks (a bag: equal ones may repeat)
    now,                 \* the clock, in milliseconds
    \* ---- the element animateCounter() writes to, and its frame loop
    counter,
    \* ---- AnimationUtils instances, scroll observers and the animations run
    anim,
    \* ---- the element toggleCollapse() works on
    collapse,
    \* ---- the last task that ran (what it was called with, what it saw)
    last

themeVars == <<insts, windowUnifiedTheme, dataTheme, darkClass, storage,
               docClick, btnListeners, mediaListeners, events>>
loadVars  == <<loadpc, readyState, dclListeners>>
envVars   == <<prefersDark, btnPresent>>
dropVars  == <<dropdownOpen, ariaExpanded>>
tabVars   == <<tabActive, ariaSelected, panelDisplay, panelAriaHidden>>
notifVars == <<notifs, containers, timers, now>>
widgetVars == <<dropVars, tabVars, notifVars, counter, anim, collapse>>
vars      == <<loadVars, themeVars, envVars, widgetVars, last>>

----------------------------------------------------------------------------
(* Bounds and value sets                                                   *)

NButtons == 1              \* data-theme-toggle buttons the page may hold
NDropdowns == 3            \* [data-dropdown] elements of the page
NGroups == 2               \* [data-tab-group] containers of the page
TabsPerGroup == 2          \* tabs (and panels) of each group
MaxNotifs == 2             \* notify() calls made by the host
MaxTimers == 4             \* timers pending at once
MaxTicks == 3              \* clock ticks during which the host and the user act
MaxFrames == 9             \* frame timestamps the rendering loop can deliver
NCounters == 2             \* data-counter elements a page can carry
MaxHostInstances == 2      \* UnifiedTheme instances constructed by host scripts
MaxToggles == 3            \* toggleCollapse calls on the collapse target
MaxHostCalls == 2          \* animate() calls made by host scripts

Buttons == 1..NButtons
Dropdowns == 1..NDropdowns
Outside == 0               \* a click target inside no element of the kind looked for

NoEntry == "<null>"        \* localStorage.getItem of a missing key, a missing attribute
DefaultKey == "unified-theme-mode"
CustomKey  == "custom-key"
Keys == {DefaultKey, CustomKey}

ThemeArgs    == {"light", "dark", "blue"}          \* arguments given to setTheme
StoredValues == {NoEntry, "", "light", "dark", "blue"}  \* what storage may hold at startup

DefaultOptions ==
    [enableDarkMode |-> TRUE, autoDetectPreference |-> TRUE, storageKey |-> DefaultKey]

----------------------------------------------------------------------------
(* The state the theme code reads and writes, as one value, so that the    *)
(* methods compose the way the calls in the source do.                     *)

World ==
    [insts |-> insts, win |-> windowUnifiedTheme, attr |-> dataTheme,
     dark |-> darkClass, store |-> storage, docClick |-> docClick,
     btnL |-> btnListeners, mediaL |-> mediaListeners, evlog |-> <<>>]

Commit(w) ==
    /\ insts' = w.insts
    /\ windowUnifiedTheme' = w.win
    /\ dataTheme' = w.attr
    /\ darkClass' = w.dark
    /\ storage' = w.store
    /\ docClick' = w.docClick
    /\ btnListeners' = w.btnL
    /\ mediaListeners' = w.mediaL
    /\ events' = w.evlog

\* JavaScript truthiness of a string-or-null read from storage
Truthy(v) == v # NoEntry /\ v # ""

\* ---- mutants of setTheme (plausible slips)
SetTheme_NoPersist(w, i, theme) ==
    [w EXCEPT !.insts[i].currentTheme = theme,
              !.attr = theme,
              !.dark = (theme = "dark"),
              !.evlog = Append(@, [theme |-> theme,
                                   seenTheme |-> theme,
                                   seenAttr |-> theme,
                                   seenDark |-> (theme = "dark"),
                                   seenStore |-> w.store[w.insts[i].options.storageKey]])]

\* ---- mutant: the event is dispatched before the storage write
SetTheme_EventFirst(w, i, theme) ==
    LET key == w.insts[i].options.storageKey
        w1 == [w EXCEPT !.insts[i].currentTheme = theme,
                        !.attr = theme,
                        !.dark = (theme = "dark")]
    IN [w1 EXCEPT !.store[key] = theme,
                  !.evlog = Append(@, [theme |-> theme,
                                       seenTheme |-> w1.insts[i].currentTheme,
                                       seenAttr |-> w1.attr,
                                       seenDark |-> w1.dark,
                                       seenStore |-> w1.store[key]])]

\* setTheme(theme): field, attribute, class, storage, then the event; the
\* event record keeps what a listener reading the state would see.
SetTheme(w, i, theme) ==
    LET key == w.insts[i].options.storageKey
        w1 == [w EXCEPT !.insts[i].currentTheme = theme,
                        !.attr = theme,
                        !.dark = (theme = "dark"),
                        !.store[key] = theme]
    IN [w1 EXCEPT !.evlog = Append(@, [theme |-> theme,
                                       seenTheme |-> w1.insts[i].currentTheme,
                                       seenAttr |-> w1.attr,
                                       seenDark |-> w1.dark,
                                       seenStore |-> w1.store[key]])]

ToggleTheme(w, i) ==
    LET newTheme == IF w.insts[i].currentTheme = "light" THEN "dark" ELSE "light"
    IN SetTheme(w, i, newTheme)

GetTheme(i) == insts[i].currentTheme

\* the 'change' listener of the media query registered by instance i
MediaChangeListener(w, i, matches) ==
    IF ~Truthy(w.store[w.insts[i].options.storageKey])
    THEN SetTheme(w, i, IF matches THEN "dark" ELSE "light")
    ELSE w

\* ---- mutant: the system preference wins over the saved theme
InitDarkMode_PreferenceFirst(w, i, prefers) ==
    LET opts == w.insts[i].options
        savedTheme == w.store[opts.storageKey]
        w1 == IF opts.autoDetectPreference
              THEN SetTheme(w, i, IF prefers THEN "dark" ELSE "light")
              ELSE IF Truthy(savedTheme) THEN SetTheme(w, i, savedTheme)
                   ELSE w
    IN IF opts.autoDetectPreference
       THEN [w1 EXCEPT !.mediaL = Append(@, i)]
       ELSE w1

InitDarkMode(w, i, prefers) ==
    LET opts == w.insts[i].options
        savedTheme == w.store[opts.storageKey]
        w1 == IF Truthy(savedTheme) THEN SetTheme(w, i, savedTheme)
              ELSE IF opts.autoDetectPreference
                   THEN SetTheme(w, i, IF prefers THEN "dark" ELSE "light")
                   ELSE w
    IN IF opts.autoDetectPreference
       THEN [w1 EXCEPT !.mediaL = Append(@, i)]
       ELSE w1

\* querySelectorAll('[data-theme-toggle]') at construction time: only the
\* buttons in the document now get a listener
SetupThemeToggle(w, i, present) ==
    [w EXCEPT !.btnL = [b \in Buttons |->
                          IF b \in present THEN Append(w.btnL[b], i) ELSE w.btnL[b]]]

ListenerKinds == <<"alert", "collapse", "dropdown", "tabs">>

SetupComponentInteractions(w, i) ==
    [w EXCEPT !.docClick = @ \o [k \in 1..4 |-> [kind |-> ListenerKinds[k], inst |-> i]]]

\* new UnifiedTheme(options): constructor and init()
Construct(w, origin, opts, prefers, present) ==
    LET i  == Len(w.insts) + 1
        w0 == [w EXCEPT !.insts = Append(@, [origin |-> origin, options |-> opts,
                                             currentTheme |-> "light"])]
        w1 == SetupThemeToggle(w0, i, present)
        w2 == SetupComponentInteractions(w1, i)
    IN IF opts.enableDarkMode THEN InitDarkMode(w2, i, prefers) ELSE w2

----------------------------------------------------------------------------
(* AnimationUtils: animate, animateOnScroll and the auto-animate setup     *)

DefaultDuration == 300                  \* this.defaultDuration
BounceDuration == 600                   \* bounce(): element.animate duration
ShakeDuration == 500                    \* shake(): element.animate duration
ScrollDefaultDuration == 600            \* animateOnScroll defaults.duration
DefaultCounterDuration == 2000          \* animateCounter(..., duration = 2000)
Undefined == -1                         \* an argument that was not passed

\* elements: the data-counter elements, one data-animate element, and one
\* element a host script animates by hand
Counters == 1..NCounters
AnimEl == NCounters + 1
HostEl == NCounters + 2
Elements == 1..(NCounters + 2)

AnimationNames ==
    {"fadeIn", "fadeOut", "slideDown", "slideUp", "scaleIn", "scaleOut",
     "bounce", "shake"}

\* what one call of the class's own animate(element, animation, duration,
\* callback) does: which method starts with which duration, whether an inline
\* style is written, whether a timer is scheduled, whether the callback runs
\* before the call returns or from the timer, whether a warning is logged
OriginalAnimate(animation, duration, cb) ==
    LET d == IF duration = Undefined THEN DefaultDuration ELSE duration
        none == [kind |-> "none", animation |-> animation, duration |-> d,
                 args |-> <<>>, styled |-> FALSE, timer |-> FALSE, cbNow |-> 0,
                 cbLater |-> FALSE, warn |-> 0]
    IN CASE animation \in {"fadeIn", "scaleIn"} ->
              [none EXCEPT !.kind = "method", !.styled = TRUE,
                           !.timer = cb, !.cbLater = cb]
         [] animation \in {"fadeOut", "slideDown", "slideUp", "scaleOut"} ->
              [none EXCEPT !.kind = "method", !.styled = TRUE,
                           !.timer = TRUE, !.cbLater = cb]
         [] animation = "bounce" ->
              [none EXCEPT !.kind = "method", !.duration = BounceDuration,
                           !.cbNow = IF cb THEN 1 ELSE 0]
         [] animation = "shake" ->
              [none EXCEPT !.kind = "method", !.duration = ShakeDuration,
                           !.cbNow = IF cb THEN 1 ELSE 0]
         [] OTHER ->
              [none EXCEPT !.warn = 1, !.cbNow = IF cb THEN 1 ELSE 0]

\* instance.animate(element, animation, duration, callback) where chain
\* lists the counters whose setup replaced instance.animate, oldest first:
\* each replacement takes (element, animation) only and hands anything but
\* its own counter to the function it replaced
\* the data-counter-start, -end and -duration attributes of counter k
CounterAttrs(k) ==
    [start |-> k, end |-> 100 * k, duration |-> k * (DefaultCounterDuration \div 2)]

\* animationUtils.animateCounter(element, start, end, duration) with the
\* values the setup of counter k read
CounterEffect(k) ==
    [kind |-> "method", animation |-> "counter",
     duration |-> CounterAttrs(k).duration,
     args |-> <<CounterAttrs(k).start, CounterAttrs(k).end, CounterAttrs(k).duration>>,
     styled |-> FALSE, timer |-> FALSE, cbNow |-> 0, cbLater |-> FALSE, warn |-> 0]

\* ---- mutant: the newest replacement serves every counter with its values
RECURSIVE AnimateVia_NewestServesAll(_, _, _, _, _)
AnimateVia_NewestServesAll(chain, el, animation, duration, cb) ==
    IF chain = <<>> THEN OriginalAnimate(animation, duration, cb)
    ELSE IF (\E k \in 1..Len(chain) : chain[k] = el) /\ animation = "custom"
         THEN CounterEffect(chain[Len(chain)])
         ELSE AnimateVia_NewestServesAll(SubSeq(chain, 1, Len(chain) - 1), el,
                                         animation, Undefined, FALSE)

RECURSIVE AnimateVia(_, _, _, _, _)
AnimateVia(chain, el, animation, duration, cb) ==
    IF chain = <<>> THEN OriginalAnimate(animation, duration, cb)
    ELSE IF el = chain[Len(chain)] /\ animation = "custom"
         THEN CounterEffect(chain[Len(chain)])
         ELSE AnimateVia(SubSeq(chain, 1, Len(chain) - 1), el, animation,
                         Undefined, FALSE)

\* the state a call of animate leaves behind: a and tms are the animation
\* state and the pending timers, t the time of the call
ApplyEffect(a, tms, el, eff, t) ==
    [anim |-> [a EXCEPT
                 !.runs[el] = IF eff.kind = "method" THEN @ + 1 ELSE @,
                 !.lastRun[el] = IF eff.kind = "method"
                                 THEN [animation |-> eff.animation,
                                       duration |-> eff.duration,
                                       args |-> eff.args]
                                 ELSE @,
                 !.styled = IF eff.styled THEN @ \cup {el} ELSE @,
                 !.warnings = @ + eff.warn,
                 !.cbCalls = @ + eff.cbNow],
     timers |-> IF eff.timer
                THEN tms (+) SetToBag({[kind |-> "animEnd", n |-> el,
                                        set |-> t, delay |-> eff.duration,
                                        due |-> t + eff.duration,
                                        cb |-> eff.cbLater]})
                ELSE tms]

\* animateOnScroll(element, options): a new observer watches the element
AnimateOnScroll(a, el, options) ==
    [a EXCEPT !.config[el] = options,
              !.observing = @ \cup {el},
              !.initial = @ \cup {el}]

\* the DOMContentLoaded callback of the entry module: every data-counter
\* element is observed and replaces animationUtils.animate, then every
\* data-animate element is observed with its attributes
RECURSIVE SetupCounters(_, _)
SetupCounters(a, todo) ==
    IF todo = {} THEN a
    ELSE LET c == CHOOSE x \in todo : \A y \in todo : x <= y
             a1 == AnimateOnScroll(a, c, [animation |-> "custom",
                                          duration |-> ScrollDefaultDuration,
                                          delay |-> 0])
         IN SetupCounters([a1 EXCEPT !.chain = Append(@, c)], todo \ {c})

AutoAnimateSetup(a) ==
    LET a1 == SetupCounters(a, a.counters)
    IN IF AnimEl \in a.animEls THEN AnimateOnScroll(a1, AnimEl, a.attrs) ELSE a1

----------------------------------------------------------------------------
(* Page load                                                               *)

InitPage ==
    /\ loadpc = "start"
    /\ readyState \in {"loading", "interactive"}
    /\ dclListeners = <<>>
    /\ insts = <<>>
    /\ windowUnifiedTheme = 0
    /\ dataTheme = NoEntry
    /\ darkClass = FALSE
    /\ \E v \in StoredValues : storage = [k \in Keys |-> IF k = DefaultKey THEN v ELSE NoEntry]
    /\ docClick = <<>>
    /\ btnListeners = [b \in Buttons |-> <<>>]
    /\ mediaListeners = <<>>
    /\ events = <<>>
    /\ prefersDark \in BOOLEAN
    /\ btnPresent \in SUBSET Buttons
    /\ last = [op |-> "none"]

\* theme-manager.js module body: the auto-initialize block
ModuleThemeManager ==
    /\ loadpc = "start"
    /\ loadpc' = "tm"
    /\ IF readyState = "loading"
       THEN /\ dclListeners' = Append(dclListeners, "autoinit")
            /\ Commit(World)
       ELSE /\ dclListeners' = dclListeners
            /\ LET w == Construct(World, "autoinit", DefaultOptions, prefersDark, btnPresent)
               IN Commit([w EXCEPT !.win = Len(w.insts)])
    /\ last' = [op |-> "load"]
    /\ UNCHANGED <<readyState, envVars, widgetVars>>

\* the entry module body: themeManager = new UnifiedTheme(), the ripple
\* click listener, the DOMContentLoaded listener, window.unifiedTheme
ModuleEntry ==
    /\ loadpc = "tm"
    /\ loadpc' = "done"
    /\ dclListeners' = Append(dclListeners, "autoanimate")
    /\ LET w  == Construct(World, "entry", DefaultOptions, prefersDark, btnPresent)
           w1 == [w EXCEPT !.docClick = Append(@, [kind |-> "ripple", inst |-> 0])]
       IN Commit([w1 EXCEPT !.win = Len(w.insts)])
    /\ last' = [op |-> "load"]
    /\ UNCHANGED <<readyState, envVars, widgetVars>>

\* the DOMContentLoaded callbacks, in registration order
RECURSIVE RunDCL(_, _, _, _)
RunDCL(w, cbs, prefers, present) ==
    IF cbs = <<>> THEN w
    ELSE LET w1 == IF Head(cbs) = "autoinit"
                   THEN LET c == Construct(w, "autoinit", DefaultOptions, prefers, present)
                        IN [c EXCEPT !.win = Len(c.insts)]
                   ELSE w
         IN RunDCL(w1, Tail(cbs), prefers, present)

DOMContentLoaded ==
    /\ loadpc = "done"
    /\ readyState = "loading"
    /\ readyState' = "interactive"
    /\ Commit(RunDCL(World, dclListeners, prefersDark, btnPresent))
    /\ anim' = IF \E k \in 1..Len(dclListeners) : dclListeners[k] = "autoanimate"
               THEN AutoAnimateSetup(anim)
               ELSE anim
    /\ last' = [op |-> "load"]
    /\ UNCHANGED <<loadpc, dclListeners, envVars, dropVars, tabVars, notifVars,
                   counter, collapse>>

Load == ModuleThemeManager \/ ModuleEntry \/ DOMContentLoaded

----------------------------------------------------------------------------
(* Theme operations                                                        *)

\* no script of the bundle is in the middle of running (the two module bodies
\* run in one task: nothing else runs between them)
Idle == loadpc # "tm"

\* the instances a host script can name once the bundle has run:
\* window.unifiedTheme and the exported themeManager
HostReachable ==
    {i \in 1..Len(insts) : /\ loadpc = "done"
                           /\ \/ i = windowUnifiedTheme
                              \/ insts[i].origin = "entry"}

CallSetTheme(i, theme) ==
    /\ i \in HostReachable
    /\ Commit(SetTheme(World, i, theme))
    /\ last' = [op |-> "setTheme", inst |-> i, arg |-> theme, before |-> dataTheme]
    /\ UNCHANGED <<loadVars, envVars, widgetVars>>

CallToggleTheme(i) ==
    /\ i \in HostReachable
    /\ Commit(ToggleTheme(World, i))
    /\ last' = [op |-> "toggleTheme", inst |-> i]
    /\ UNCHANGED <<loadVars, envVars, widgetVars>>

\* a host script calling toggleTheme() twice in a row
CallToggleTwice(i) ==
    /\ i \in HostReachable
    /\ Commit(ToggleTheme(ToggleTheme(World, i), i))
    /\ last' = [op |-> "toggleTwice", inst |-> i, before |-> GetTheme(i)]
    /\ UNCHANGED <<loadVars, envVars, widgetVars>>

RECURSIVE RunButtonListeners(_, _)
RunButtonListeners(w, ls) ==
    IF ls = <<>> THEN w
    ELSE RunButtonListeners(ToggleTheme(w, Head(ls)), Tail(ls))

\* the user clicks a data-theme-toggle button
ClickThemeToggle(b) ==
    /\ Idle
    /\ b \in btnPresent
    /\ Commit(RunButtonListeners(World, btnListeners[b]))
    /\ last' = [op |-> "buttonClick", button |-> b, before |-> dataTheme]
    /\ UNCHANGED <<loadVars, envVars, widgetVars>>

\* a data-theme-toggle button is added to the document (parsed or inserted)
AddButton(b) ==
    /\ Idle
    /\ b \notin btnPresent
    /\ btnPresent' = btnPresent \cup {b}
    /\ Commit(World)
    /\ last' = [op |-> "addButton", button |-> b]
    /\ UNCHANGED <<loadVars, prefersDark, widgetVars>>

RECURSIVE RunMediaListeners(_, _, _)
RunMediaListeners(w, ls, matches) ==
    IF ls = <<>> THEN w
    ELSE RunMediaListeners(MediaChangeListener(w, Head(ls), matches), Tail(ls), matches)

\* the system colour-scheme preference changes
MediaChange ==
    /\ Idle
    /\ prefersDark' = ~prefersDark
    /\ Commit(RunMediaListeners(World, mediaListeners, ~prefersDark))
    /\ last' = [op |-> "mediaChange"]
    /\ UNCHANGED <<loadVars, btnPresent, widgetVars>>

ThemeNext ==
    \/ Load
    \/ \E i \in 1..Len(insts), t \in ThemeArgs : CallSetTheme(i, t)
    \/ \E i \in 1..Len(insts) : CallToggleTheme(i)
    \/ \E i \in 1..Len(insts) : CallToggleTwice(i)
    \/ \E b \in Buttons : ClickThemeToggle(b)
    \/ \E b \in Buttons : AddButton(b)
    \/ MediaChange

DropdownsAtRest ==
    /\ dropdownOpen = {}
    /\ ariaExpanded = [d \in Dropdowns |-> NoEntry]

\* ---- the page's tab markup
\* A tab is <<g, k>>: it sits in group g (0: inside no [data-tab-group]) and
\* its data-tab value is the id of panel <<g, k>>; k = 0 names an id no
\* element has. The tab outside every group names panel <<1, 1>>.
Groups == 1..NGroups
Panels == Groups \X (1..TabsPerGroup)
Tabs   == (Groups \X (0..TabsPerGroup)) \cup {<<0, 1>>}
Missing == <<0, 0>>                             \* getElementById found nothing
NoTab == <<0, 0>>                               \* the click target is inside no tab

TabGroup(tab) == tab[1]                         \* tab.closest('[data-tab-group]')
PanelGroup(p) == p[1]
TargetOf(tab) ==                                \* getElementById(data-tab value)
    IF tab[2] = 0 THEN Missing
    ELSE IF tab[1] = 0 THEN <<1, tab[2]>> ELSE tab
TabsOf(g) == {t \in Tabs : TabGroup(t) = g}     \* tabGroup.querySelectorAll('[data-tab]')

\* the markup as shipped: the first tab of each group is marked active, no
\* panel has an inline display or an aria-hidden attribute yet
TabsAtRest ==
    /\ tabActive = {t \in Tabs : TabGroup(t) # 0 /\ t[2] = 1}
    /\ ariaSelected = [t \in Tabs |-> NoEntry]
    /\ panelDisplay = [p \in Panels |-> ""]
    /\ panelAriaHidden = [p \in Panels |-> NoEntry]

NotifsAtRest ==
    /\ notifs = <<>>
    /\ containers = {}
    /\ timers = EmptyBag
    /\ now = 0

\* animateCounter() has not been called
CounterAtRest ==
    counter = [called |-> FALSE, scheduled |-> FALSE, text |-> "", frames |-> 0]

\* the page has no data-counter and no data-animate element, and no host
\* script has used an AnimationUtils instance
NoConfig == [animation |-> "", duration |-> 0, delay |-> 0]
NoRun == [animation |-> "", duration |-> 0, args |-> <<>>]
AnimRest ==
    [counters |-> {}, animEls |-> {}, attrs |-> NoConfig, chain |-> <<>>,
     config |-> [e \in Elements |-> NoConfig],
     observing |-> {}, initial |-> {}, inView |-> {},
     reported |-> {}, calls |-> [e \in Elements |-> 0], early |-> {},
     reentered |-> {},
     runs |-> [e \in Elements |-> 0],
     lastRun |-> [e \in Elements |-> NoRun],
     styled |-> {}, warnings |-> 0, cbCalls |-> 0, hostCalls |-> 0,
     cbExpected |-> 0, cbEarly |-> FALSE, overlap |-> FALSE]
AnimAtRest == anim = AnimRest

\* the collapse target is expanded and nothing is pending
CollapseAtRest ==
    collapse = [display |-> "", collapsed |-> FALSE, collapsing |-> FALSE,
                height |-> "", toggles |-> 0, solo |-> "none",
                     branch |-> "none"]

InitTheme == InitPage /\ DropdownsAtRest /\ TabsAtRest /\ NotifsAtRest /\ CounterAtRest /\ AnimAtRest /\ CollapseAtRest

SpecTheme == InitTheme /\ [][ThemeNext]_vars

----------------------------------------------------------------------------
(* Claims about the theme state (checked under SpecTheme)                  *)

CountKind(kind) == Cardinality({k \in 1..Len(docClick) : docClick[k].kind = kind})

\* C1: after a setTheme(t) or toggleTheme() call on an instance, getTheme(),
\* the data-theme attribute and the storage entry under the instance's
\* storageKey all equal the theme the call applied (for setTheme: t), and the
\* document element has class 'dark' exactly when that theme is 'dark'.
C1_ThemeAppliedEverywhere ==
    last.op \in {"setTheme", "toggleTheme"} =>
        LET i == last.inst
            t == events[Len(events)].theme
        IN /\ last.op = "setTheme" => t = last.arg
           /\ GetTheme(i) = t
           /\ dataTheme = t
           /\ storage[insts[i].options.storageKey] = t
           /\ darkClass <=> (t = "dark")

\* setTheme('light') has just run on a document that showed 'dark'
C1_Witness_DarkThenLight ==
    /\ last.op = "setTheme"
    /\ last.arg = "light"
    /\ last.before = "dark"
    /\ dataTheme = "light"
    /\ storage[DefaultKey] = "light"

\* C2: two consecutive toggleTheme() calls leave getTheme() where it was
\* before the first of them, whatever the current theme was.
C2_ToggleTwiceRestores ==
    last.op = "toggleTwice" => GetTheme(last.inst) = last.before

\* C3: the current theme of every instance is 'light' or 'dark'.
C3_ThemeIsLightOrDark ==
    \A i \in 1..Len(insts) : GetTheme(i) \in {"light", "dark"}

\* C6: once the module bodies have run, each delegated click handler is on
\* the document exactly once, no theme-toggle button carries more than one
\* listener, and a click on such a button emits at most one themeChanged.
C6_HandlersAttachedOnce ==
    loadpc = "done" =>
        /\ \A k \in 1..Len(ListenerKinds) : CountKind(ListenerKinds[k]) = 1
        /\ \A b \in Buttons : Len(btnListeners[b]) <= 1
        /\ last.op = "buttonClick" => Len(events) <= 1

----------------------------------------------------------------------------
(* Dropdowns                                                               *)

\* the instances whose delegated listener of this kind is on the document,
\* in registration order
RECURSIVE ListenersOf(_, _)
ListenersOf(ls, kind) ==
    IF ls = <<>> THEN <<>>
    ELSE IF Head(ls).kind = kind
         THEN <<Head(ls).inst>> \o ListenersOf(Tail(ls), kind)
         ELSE ListenersOf(Tail(ls), kind)

\* ---- mutants of closeAllDropdowns / toggleDropdown
ToggleDropdown_NoClose(D, d) ==
    IF d \notin D.open
    THEN [open |-> D.open \cup {d}, aria |-> [D.aria EXCEPT ![d] = "true"]]
    ELSE [open |-> D.open \ {d}, aria |-> [D.aria EXCEPT ![d] = "false"]]

\* closeAllDropdowns(): every [data-dropdown].open loses the class
CloseAllDropdowns(D) ==
    [open |-> {},
     aria |-> [d \in Dropdowns |-> IF d \in D.open THEN "false" ELSE D.aria[d]]]

\* toggleDropdown(dropdown)
ToggleDropdown(D, d) ==
    LET isOpen == d \in D.open
        D1 == CloseAllDropdowns(D)
    IN IF ~isOpen
       THEN [open |-> D1.open \cup {d}, aria |-> [D1.aria EXCEPT ![d] = "true"]]
       ELSE D1

\* the document click listener setupDropdowns() registers; target is
\* e.target.closest('[data-dropdown]'), Outside when there is none
DropdownClickListener(D, target) ==
    IF target # Outside THEN ToggleDropdown(D, target) ELSE CloseAllDropdowns(D)

RECURSIVE RunDropdownListeners(_, _, _)
RunDropdownListeners(D, ls, target) ==
    IF ls = <<>> THEN D
    ELSE RunDropdownListeners(DropdownClickListener(D, target), Tail(ls), target)

\* one click on the document, dispatched to every dropdown listener on it
ClickDropdownTarget(target) ==
    /\ Idle
    /\ LET ls == ListenersOf(docClick, "dropdown")
           D  == RunDropdownListeners([open |-> dropdownOpen, aria |-> ariaExpanded],
                                      ls, target)
       IN /\ dropdownOpen' = D.open
          /\ ariaExpanded' = D.aria
          /\ last' = [op |-> "click", target |-> target, runs |-> Len(ls),
                      openBefore |-> dropdownOpen]
    /\ UNCHANGED <<loadVars, themeVars, envVars, tabVars, notifVars, counter, anim, collapse>>

InitDropdown ==
    /\ InitPage
    /\ TabsAtRest
    /\ NotifsAtRest
    /\ CounterAtRest /\ AnimAtRest /\ CollapseAtRest
    /\ dropdownOpen \in SUBSET Dropdowns          \* the markup may ship open dropdowns
    /\ ariaExpanded = [d \in Dropdowns |-> NoEntry]

DropdownNext ==
    \/ Load
    \/ \E target \in Dropdowns \cup {Outside} : ClickDropdownTarget(target)

SpecDropdown == InitDropdown /\ [][DropdownNext]_vars

\* C4: a click on a closed dropdown B while another dropdown is open leaves
\* B, and only B, with class 'open' once the click has been handled.
C4_ClickOpensOnlyTarget ==
    (/\ last.op = "click"
     /\ last.runs >= 1
     /\ last.target # Outside
     /\ last.target \notin last.openBefore
     /\ last.openBefore # {})
    => dropdownOpen = {last.target}

\* C5: after a click handled by the dropdown listener(s), at most one
\* dropdown has class 'open', and none has after a click outside every
\* dropdown.
C5_AtMostOneOpen ==
    (last.op = "click" /\ last.runs >= 1) =>
        /\ Cardinality(dropdownOpen) <= 1
        /\ last.target = Outside => dropdownOpen = {}

\* a click on dropdown B was handled while two others were open, and another
\* state where a click outside closed an open dropdown
C5_Witness_ClosedOthers ==
    /\ last.op = "click"
    /\ last.runs >= 1
    /\ Cardinality(last.openBefore) >= 2
    /\ last.target # Outside
    /\ last.target \notin last.openBefore
    /\ Cardinality(dropdownOpen) <= 1

----------------------------------------------------------------------------
(* Tabs                                                                    *)

TabState ==
    [active |-> tabActive, selected |-> ariaSelected,
     display |-> panelDisplay, hidden |-> panelAriaHidden]

\* ---- mutant of switchTab: the other tabs of the group keep their class
SwitchTab_KeepsOthers(T, tab) ==
    LET targetPanel == TargetOf(tab)
    IN IF TabGroup(tab) = 0 THEN T
       ELSE [active   |-> T.active \cup {tab},
             selected |-> [T.selected EXCEPT ![tab] = "true"],
             display  |-> [p \in Panels |-> IF p = targetPanel THEN "block" ELSE "none"],
             hidden   |-> [p \in Panels |-> IF p = targetPanel THEN "false" ELSE "true"]]

\* switchTab(tab)
SwitchTab(T, tab) ==
    LET targetPanel == TargetOf(tab)
        tabGroup == TabGroup(tab)
        tabs == TabsOf(tabGroup)
    IN IF tabGroup = 0 THEN T
       ELSE [active   |-> (T.active \ tabs) \cup {tab},
             selected |-> [t \in Tabs |-> IF t = tab THEN "true"
                                          ELSE IF t \in tabs THEN "false"
                                          ELSE T.selected[t]],
             \* document.querySelectorAll('[data-tab-panel]'): every panel
             \* of the document, then the target panel when it exists
             display  |-> [p \in Panels |-> IF p = targetPanel THEN "block" ELSE "none"],
             hidden   |-> [p \in Panels |-> IF p = targetPanel THEN "false" ELSE "true"]]

\* the document click listener setupTabs() registers; target is
\* e.target.closest('[data-tab]'), NoTab when there is none
TabClickListener(T, target) ==
    IF target # NoTab THEN SwitchTab(T, target) ELSE T

RECURSIVE RunTabListeners(_, _, _)
RunTabListeners(T, ls, target) ==
    IF ls = <<>> THEN T
    ELSE RunTabListeners(TabClickListener(T, target), Tail(ls), target)

\* one click on the document, dispatched to every tab listener on it
ClickTabTarget(target) ==
    /\ Idle
    /\ LET ls == ListenersOf(docClick, "tabs")
           T  == RunTabListeners(TabState, ls, target)
       IN /\ tabActive' = T.active
          /\ ariaSelected' = T.selected
          /\ panelDisplay' = T.display
          /\ panelAriaHidden' = T.hidden
          /\ last' = [op |-> "click", target |-> target, runs |-> Len(ls),
                      activeBefore |-> tabActive, displayBefore |-> panelDisplay]
    /\ UNCHANGED <<loadVars, themeVars, envVars, dropVars, notifVars, counter, anim, collapse>>

InitTabs == InitPage /\ DropdownsAtRest /\ TabsAtRest /\ NotifsAtRest /\ CounterAtRest /\ AnimAtRest /\ CollapseAtRest

TabsNext ==
    \/ Load
    \/ \E target \in Tabs \cup {NoTab} : ClickTabTarget(target)

SpecTabs == InitTabs /\ [][TabsNext]_vars

\* the last task was a click on a tab of a group, handled by switchTab
TabSwitched ==
    /\ last.op = "click"
    /\ last.runs >= 1
    /\ last.target # NoTab
    /\ TabGroup(last.target) # 0

\* C7: after switchTab on tab T of group G whose data-tab names an existing
\* panel P, T is the only tab of G with class 'active' and aria-selected
\* 'true' (the others have 'false'), P is displayed (display 'block',
\* aria-hidden 'false') and every other panel of G is hidden.
C7_ExactlyTargetPairActive ==
    (TabSwitched /\ TargetOf(last.target) \in Panels) =>
        LET T == last.target
            G == TabGroup(T)
            P == TargetOf(T)
        IN /\ \A t \in TabsOf(G) :
                 /\ t \in tabActive <=> t = T
                 /\ ariaSelected[t] = IF t = T THEN "true" ELSE "false"
           /\ panelDisplay[P] = "block" /\ panelAriaHidden[P] = "false"
           /\ \A p \in Panels :
                 (PanelGroup(p) = G /\ p # P) =>
                     panelDisplay[p] = "none" /\ panelAriaHidden[p] = "true"

\* switchTab ran on T while another tab of its group was active and another
\* panel of its group was displayed
C7_Witness_SwitchedAway ==
    /\ TabSwitched
    /\ TargetOf(last.target) \in Panels
    /\ \E t \in TabsOf(TabGroup(last.target)) :
          t # last.target /\ t \in last.activeBefore /\ t \notin tabActive
    /\ \E p \in Panels :
          /\ PanelGroup(p) = TabGroup(last.target)
          /\ p # TargetOf(last.target)
          /\ last.displayBefore[p] = "block"
          /\ panelDisplay[p] = "none"

\* C8: switching a tab of group G leaves the active tabs and the displayed
\* panel of every other group as they were.
C8_OtherGroupsUntouched ==
    TabSwitched =>
        LET G == TabGroup(last.target)
        IN /\ \A t \in Tabs :
                 TabGroup(t) # G => (t \in tabActive <=> t \in last.activeBefore)
           /\ \A p \in Panels :
                 (PanelGroup(p) # G /\ last.displayBefore[p] = "block")
                     => panelDisplay[p] = "block"

----------------------------------------------------------------------------
(* Notifications, alert dismissal and timers                               *)

DismissDelay == 300        \* dismissAlert: setTimeout(() => alert.remove(), 300)
Durations == {0, 2 * DismissDelay}                 \* options.duration values tried
MaxTime == MaxTicks * DismissDelay

NotifState == [notifs |-> notifs, timers |-> timers]

SetTimeout(tms, kind, n, due) == tms (+) SetToBag({[kind |-> kind, n |-> n, due |-> due]})

\* dismissAlert(alert): the exit style now, the removal after 300 ms
DismissAlert(N, n, t) ==
    [notifs |-> [N.notifs EXCEPT ![n].dismissing = TRUE],
     timers |-> SetTimeout(N.timers, "remove", n, t + DismissDelay)]

\* the click listener setupAlertDismissal() registers, for a click on the
\* .alert-close button of notification n
AlertClickListener(N, n, t) == DismissAlert(N, n, t)

RECURSIVE RunAlertListeners(_, _, _, _)
RunAlertListeners(N, ls, n, t) ==
    IF ls = <<>> THEN N
    ELSE RunAlertListeners(AlertClickListener(N, n, t), Tail(ls), n, t)

\* ---- mutant: the auto-dismiss callback does not look at parentNode
AutoDismissCallback_NoGuard(N, n, t) == DismissAlert(N, n, t)

\* the timer notify() sets when duration > 0
AutoDismissCallback(N, n, t) ==
    IF N.notifs[n].inDOM THEN DismissAlert(N, n, t) ELSE N

\* ---- mutant: the removal takes every alert of the document along
RemoveCallback_All(N, n) ==
    [N EXCEPT !.notifs = [k \in 1..Len(N.notifs) |-> [N.notifs[k] EXCEPT !.inDOM = FALSE]]]

\* the timer dismissAlert() sets: alert.remove()
RemoveCallback(N, n) ==
    [N EXCEPT !.notifs[n].inDOM = FALSE]

\* ---- mutant of the auto-dismiss guard: duration >= 0 instead of > 0
AutoDismissTimer_Always(tms, duration, n, t) ==
    SetTimeout(tms, "autoDismiss", n, t + duration)

\* notify(): "if (config.duration > 0) setTimeout(..., config.duration)"
AutoDismissTimer(tms, duration, n, t) ==
    IF duration > 0 THEN SetTimeout(tms, "autoDismiss", n, t + duration) ELSE tms

\* themeManager.notify(message, {duration, dismissible}); the position only
\* picks the container the node is appended to
Notify(i, duration, dismissible) ==
    /\ i \in HostReachable
    /\ now < MaxTime
    /\ Len(notifs) < MaxNotifs
    /\ BagCardinality(timers) < MaxTimers
    /\ LET n == Len(notifs) + 1
       IN /\ notifs' = Append(notifs, [duration |-> duration,
                                       dismissible |-> dismissible, inDOM |-> TRUE,
                                       dismissing |-> FALSE, created |-> now,
                                       closeClicked |-> FALSE, clicks |-> 0,
                                       clickedAt |-> -1])
          /\ containers' = containers \cup {"top-right"}  \* getNotificationContainer
          /\ timers' = AutoDismissTimer(timers, duration, n, now)
          /\ last' = [op |-> "notify", n |-> n]
    /\ UNCHANGED <<now, loadVars, themeVars, envVars, dropVars, tabVars, counter, anim, collapse>>

\* the user clicks the .alert-close button of notification n
ClickAlertClose(n) ==
    /\ Idle
    /\ now < MaxTime
    /\ n \in 1..Len(notifs)
    /\ notifs[n].inDOM
    /\ notifs[n].dismissible
    /\ LET ls == ListenersOf(docClick, "alert")
           N  == RunAlertListeners(NotifState, ls, n, now)
       IN /\ BagCardinality(N.timers) <= MaxTimers
          /\ notifs' = [N.notifs EXCEPT
                          ![n].closeClicked = (Len(ls) >= 1),
                          ![n].clicks = @ + 1,
                          ![n].clickedAt = IF @ = -1 THEN now ELSE @]
          /\ timers' = N.timers
          /\ last' = [op |-> "closeClick", n |-> n]
    /\ UNCHANGED <<now, containers, loadVars, themeVars, envVars, dropVars, tabVars, counter, anim, collapse>>

\* a pending timer whose delay has elapsed runs its callback
FireTimer(tm) ==
    /\ BagIn(tm, timers)
    /\ tm.due <= now
    /\ LET N0 == [notifs |-> notifs, timers |-> timers (-) SetToBag({tm})]
           N  == IF tm.kind = "autoDismiss"
                 THEN AutoDismissCallback(N0, tm.n, now)
                 ELSE RemoveCallback(N0, tm.n)
       IN /\ notifs' = N.notifs
          /\ timers' = N.timers
          /\ last' = [op |-> "timer", kind |-> tm.kind, n |-> tm.n,
                      wasInDOM |-> notifs[tm.n].inDOM, before |-> notifs,
                      pendingBefore |-> BagCardinality(timers)]
    /\ UNCHANGED <<now, containers, loadVars, themeVars, envVars, dropVars, tabVars, counter, anim, collapse>>

\* time passes, in steps of the dismiss delay, counted from the moment the
\* bundle has run and the document is parsed (DOMContentLoaded falls within
\* the first step); it keeps passing as long as a timer is still to come
Tick ==
    /\ loadpc = "done" /\ readyState = "interactive"
    /\ \/ now < MaxTime
       \/ \E tm \in BagToSet(timers) : tm.due > now
    /\ now' = now + DismissDelay
    /\ last' = [op |-> "tick"]
    /\ UNCHANGED <<notifs, containers, timers, loadVars, themeVars, envVars,
                   dropVars, tabVars, counter, anim, collapse>>

\* the theme inputs play no part here: an empty storage, a light system
InitNotify ==
    /\ InitPage
    /\ storage = [k \in Keys |-> NoEntry]
    /\ ~prefersDark
    /\ btnPresent = {}
    /\ DropdownsAtRest /\ TabsAtRest /\ NotifsAtRest /\ CounterAtRest /\ AnimAtRest /\ CollapseAtRest

\* every timer record the bounds allow
TimerRecs ==
    [kind : {"autoDismiss", "remove"}, n : 1..MaxNotifs,
     due : {k * DismissDelay : k \in 0..(MaxTicks + 4)}]

NotifyNext ==
    \/ Load
    \/ \E i \in 1..Len(insts), d \in Durations, dis \in BOOLEAN : Notify(i, d, dis)
    \/ \E n \in 1..MaxNotifs : ClickAlertClose(n)
    \/ \E tm \in TimerRecs : FireTimer(tm)
    \/ Tick

\* some pending timer of notification n fires
FireTimerOf(n) == \E tm \in TimerRecs : tm.n = n /\ FireTimer(tm)

\* the bundle runs and the document finishes parsing, time passes, and the
\* event loop does not leave the elapsed timers of a notification waiting
\* for ever
SpecNotify ==
    /\ InitNotify
    /\ [][NotifyNext]_vars
    /\ WF_vars(Load)
    /\ WF_vars(Tick)
    /\ \A n \in 1..MaxNotifs : WF_vars(FireTimerOf(n))

Exists(n) == n \in 1..Len(notifs)

C9_Safety ==
    \A n \in 1..Len(notifs) :
        \* duration 0: no timer dismisses it; it stays until the close button is used
        /\ (notifs[n].duration = 0 /\ ~notifs[n].closeClicked) =>
               /\ notifs[n].inDOM
               /\ ~notifs[n].dismissing
               /\ \A tm \in BagToSet(timers) : tm.n # n
        \* duration d > 0: not removed by its timer before d has elapsed
        /\ (notifs[n].duration > 0 /\ ~notifs[n].closeClicked /\ ~notifs[n].inDOM) =>
               now >= notifs[n].created + notifs[n].duration

\* C9: a notification created with duration 0 is never dismissed by a timer
\* (it stays in the document until its close button is used); one created
\* with duration d > 0 is eventually removed from the document, and when the
\* close button was not used, not before d has elapsed.
C9_NotificationLifetime ==
    /\ []C9_Safety
    /\ \A n \in 1..MaxNotifs :
          (Exists(n) /\ notifs[n].duration > 0) ~> (Exists(n) /\ ~notifs[n].inDOM)

\* a notification with duration d > 0 whose close button was never used has
\* been removed from the document by its timers
C9_Witness_TimedRemoved ==
    \E n \in 1..Len(notifs) :
        /\ notifs[n].duration > 0
        /\ ~notifs[n].closeClicked
        /\ ~notifs[n].inDOM
        /\ now >= notifs[n].created + notifs[n].duration + DismissDelay

----------------------------------------------------------------------------
(* AnimationUtils.animateCounter                                           *)

CounterDurations == {0, DefaultCounterDuration \div 2, DefaultCounterDuration}
CounterStarts == {0, 10}
CounterEnds == {0, 100, 1234}
\* the timestamps the frames can carry: a grid of an eighth of the default
\* duration; animateCounter is called at CallTime, so a first frame may carry
\* a timestamp earlier than, equal to or later than performance.now()
FrameStep == DefaultCounterDuration \div 8
FrameTimes == {k * FrameStep : k \in 0..(MaxFrames + 1)}
CallTime == FrameStep

\* ---- numbers: an integer, or one of the IEEE specials the code can produce
Num(v) == [kind |-> "num", v |-> v]
NaN == [kind |-> "nan"]
PosInf == [kind |-> "+inf"]
NegInf == [kind |-> "-inf"]

RECURSIVE GCD(_, _)
GCD(a, b) == IF b = 0 THEN a ELSE GCD(b, a % b)
Abs(a) == IF a < 0 THEN -a ELSE a

\* Number.prototype.toLocaleString() of an integer in the en-US locale:
\* groups of three digits separated by commas
Pad3(n) == ToString(n \div 100) \o ToString((n \div 10) % 10) \o ToString(n % 10)
RECURSIVE GroupDigits(_)
GroupDigits(n) ==
    IF n < 1000 THEN ToString(n)
    ELSE GroupDigits(n \div 1000) \o "," \o Pad3(n % 1000)
ToLocaleString(x) ==
    CASE x.kind = "nan"  -> "NaN"
      [] x.kind = "+inf" -> "<infinity>"
      [] x.kind = "-inf" -> "-<infinity>"
      [] OTHER -> IF x.v < 0 THEN "-" \o GroupDigits(-x.v) ELSE GroupDigits(x.v)

\* Math.min(elapsedTime / duration, 1): a fraction <<a, b>> in lowest terms
\* with b > 0, or a special when duration is 0
Progress(elapsed, duration) ==
    IF duration = 0
    THEN IF elapsed > 0 THEN <<1, 1>>            \* min(+Infinity, 1)
         ELSE IF elapsed < 0 THEN NegInf         \* min(-Infinity, 1)
         ELSE NaN                                \* 0 / 0
    ELSE IF elapsed >= duration THEN <<1, 1>>
         ELSE LET g == GCD(Abs(elapsed), duration)
              IN <<elapsed \div g, duration \div g>>

\* ---- mutant: "progress <= 1" keeps the loop going for ever
ProgressBelowOne_OrEqual(p) ==
    IF p = NaN THEN FALSE
    ELSE IF p = NegInf THEN TRUE
    ELSE p[1] <= p[2]

\* progress < 1
ProgressBelowOne(p) ==
    IF p = NaN THEN FALSE
    ELSE IF p = NegInf THEN TRUE
    ELSE p[1] < p[2]

\* Math.floor(start + difference * (1 - Math.pow(1 - progress, 3)))
CurrentValue(start, end, p) ==
    LET difference == end - start
    IN IF p = NaN THEN NaN
       ELSE IF p = NegInf
            THEN (IF difference > 0 THEN NegInf
                  ELSE IF difference < 0 THEN PosInf
                  ELSE NaN)                      \* 0 * -Infinity
       ELSE LET a == p[1]
                b == p[2]
                b3 == b * b * b
                r3 == (b - a) * (b - a) * (b - a)
            IN Num((start * b3 + difference * (b3 - r3)) \div b3)

\* the frame callback "animate(currentTime)"
AnimateFrame(c, currentTime) ==
    LET elapsedTime == currentTime - c.startTime
        progress == Progress(elapsedTime, c.duration)
        currentValue == CurrentValue(c.start, c.end, progress)
        \* element.textContent = currentValue.toLocaleString()
        w == [c EXCEPT !.prevWritten = c.written, !.written = currentValue]
    IN IF ProgressBelowOne(progress)
       THEN [w EXCEPT !.text = ToLocaleString(currentValue),
                      !.value = currentValue,
                      !.scheduled = TRUE]        \* requestAnimationFrame(animate)
       ELSE [w EXCEPT !.text = ToLocaleString(Num(c.end)),
                      !.value = Num(c.end),
                      !.scheduled = FALSE]

\* animateCounter(element, start, end, duration), called at CallTime
AnimateCounter(start, end, duration) ==
    /\ ~counter.called
    /\ counter' = [called |-> TRUE, scheduled |-> TRUE, text |-> counter.text,
                   frames |-> 0, start |-> start, end |-> end, duration |-> duration,
                   startTime |-> CallTime, lastTime |-> -1, value |-> NaN,
                   written |-> NaN, prevWritten |-> NaN]
    /\ last' = [op |-> "animateCounter"]
    /\ UNCHANGED <<loadVars, themeVars, envVars, dropVars, tabVars, notifVars,
                   anim, collapse>>

\* the browser runs the pending frame callback with timestamp ts; the
\* timestamps of successive frames grow
Frame(ts) ==
    /\ counter.called
    /\ counter.scheduled
    /\ ts > counter.lastTime
    /\ LET c == AnimateFrame(counter, ts)
       IN counter' = [c EXCEPT !.lastTime = ts, !.frames = @ + 1]
    /\ last' = [op |-> "frame"]
    /\ UNCHANGED <<loadVars, themeVars, envVars, dropVars, tabVars, notifVars,
                   anim, collapse>>

AnyFrame == \E ts \in FrameTimes : Frame(ts)

InitCounter ==
    /\ InitPage
    /\ readyState = "interactive"
    /\ storage = [k \in Keys |-> NoEntry]
    /\ ~prefersDark
    /\ btnPresent = {}
    /\ DropdownsAtRest /\ TabsAtRest /\ NotifsAtRest /\ CounterAtRest /\ AnimAtRest /\ CollapseAtRest

CounterNext ==
    \/ \E start \in CounterStarts, end \in CounterEnds, d \in CounterDurations :
          AnimateCounter(start, end, d)
    \/ AnyFrame

\* frame callbacks keep being delivered while one is requested
SpecCounter == InitCounter /\ [][CounterNext]_vars /\ WF_vars(AnyFrame)

CounterStopped == counter.called /\ ~counter.scheduled

C10_Safety ==
    \* once a frame has seen progress reach 1 the loop is not rescheduled
    /\ (/\ counter.called
        /\ counter.frames > 0
        /\ counter.lastTime - counter.startTime >= counter.duration
        /\ counter.lastTime > counter.startTime)
       => ~counter.scheduled
    \* and the element then shows the formatted end value
    /\ CounterStopped => counter.text = ToLocaleString(Num(counter.end))
    /\ (CounterStopped /\ counter.end = 100) => counter.text = "100"

\* C10: animateCounter terminates: with frames delivered at growing
\* timestamps the loop stops rescheduling itself once progress has reached 1,
\* and the element's final text is the formatted end value ("100" for end
\* 100), also when duration is 0.
C10_CounterTerminates ==
    /\ []C10_Safety
    /\ counter.called ~> CounterStopped

\* animateCounter(el, 0, 100, 1000) has stopped after several frames, the
\* last of which was the first to reach the full duration
C10_Witness_Example ==
    /\ CounterStopped
    /\ counter.start = 0 /\ counter.end = 100
    /\ counter.duration = DefaultCounterDuration \div 2
    /\ counter.frames >= 3
    /\ counter.text = "100"

\* x <= y on numbers (false when either is NaN)
Leq(x, y) ==
    IF x = NaN \/ y = NaN THEN FALSE
    ELSE IF x = NegInf \/ y = PosInf THEN TRUE
    ELSE IF x = PosInf \/ y = NegInf THEN FALSE
    ELSE x.v <= y.v

\* C11: with start <= end, the value each frame writes to the element is
\* >= the value the previous frame wrote and <= end.
C11_CounterMonotone ==
    (counter.called /\ counter.frames > 0 /\ counter.start <= counter.end)
    => /\ Leq(counter.written, Num(counter.end))
       /\ counter.frames > 1 => Leq(counter.prevWritten, counter.written)

\* the same for calls with a positive duration
C11_MonotonePositiveDuration ==
    (counter.called /\ counter.duration > 0) => C11_CounterMonotone

----------------------------------------------------------------------------
(* Animations started by scrolling and by host scripts                     *)

AnimState == [anim |-> anim, timers |-> timers]

\* ---- mutant: the observer keeps watching after the first intersection
ObserverCallback_KeepsObserving(A, el, isIntersecting, t) ==
    IF isIntersecting
    THEN [anim |-> [A.anim EXCEPT !.reported = @ \cup {el}],
          timers |-> A.timers (+) SetToBag({[kind |-> "scroll", n |-> el,
                                 set |-> t, due |-> t + A.anim.config[el].delay]})]
    ELSE A

\* the IntersectionObserver callback of animateOnScroll, for one entry
ObserverCallback(A, el, isIntersecting, t) ==
    IF isIntersecting
    THEN [anim |-> [A.anim EXCEPT !.reported = @ \cup {el},
                                  !.observing = @ \ {el}],      \* unobserve
          timers |-> A.timers (+) SetToBag({[kind |-> "scroll", n |-> el,
                                 set |-> t, due |-> t + A.anim.config[el].delay]})]
    ELSE A

PageElements == anim.counters \cup anim.animEls

\* an observer reports the state of its element for the first time
InitialReport(el) ==
    /\ Idle
    /\ el \in anim.initial
    /\ LET A == ObserverCallback(AnimState, el, el \in anim.inView, now)
       IN /\ anim' = [A.anim EXCEPT !.initial = @ \ {el}]
          /\ timers' = A.timers
    /\ last' = [op |-> "report"]
    /\ UNCHANGED <<notifs, containers, now, loadVars, themeVars, envVars,
                   dropVars, tabVars, counter, collapse>>

\* the user scrolls an element of the page into or out of the viewport; an
\* observer that watches it (and has made its first report) is told
Scroll(el) ==
    /\ Idle
    /\ el \in PageElements
    /\ LET entering == el \notin anim.inView
           a1 == [anim EXCEPT
                    !.inView = IF entering THEN @ \cup {el} ELSE @ \ {el},
                    !.reentered = IF entering /\ anim.calls[el] > 0
                                  THEN @ \cup {el} ELSE @]
           A == IF el \in anim.observing \ anim.initial
                THEN ObserverCallback([anim |-> a1, timers |-> timers], el,
                                      entering, now)
                ELSE [anim |-> a1, timers |-> timers]
       IN /\ anim' = A.anim
          /\ timers' = A.timers
    /\ last' = [op |-> "scroll"]
    /\ UNCHANGED <<notifs, containers, now, loadVars, themeVars, envVars,
                   dropVars, tabVars, counter, collapse>>

\* the timer set by the observer callback fires:
\* this.animate(entry.target, config.animation, config.duration)
FireScrollTimer(el) ==
    /\ \E tm \in BagToSet(timers) :
         /\ tm.kind = "scroll" /\ tm.n = el /\ tm.due <= now
         /\ LET eff == AnimateVia(anim.chain, el, anim.config[el].animation,
                                  anim.config[el].duration, FALSE)
                a1 == [anim EXCEPT
                         !.calls[el] = @ + 1,
                         !.early = IF now < tm.set + anim.config[el].delay
                                   THEN @ \cup {el} ELSE @]
                A == ApplyEffect(a1, timers (-) SetToBag({tm}), el, eff, now)
            IN /\ anim' = A.anim
               /\ timers' = A.timers
    /\ last' = [op |-> "scrollTimer"]
    /\ UNCHANGED <<notifs, containers, now, loadVars, themeVars, envVars,
                   dropVars, tabVars, counter, collapse>>

\* the timer an animation method set fires (its callback runs, if any)
FireAnimEnd(el) ==
    /\ \E tm \in BagToSet(timers) :
         /\ tm.kind = "animEnd" /\ tm.n = el /\ tm.due <= now
         /\ anim' = [anim EXCEPT
                       !.cbCalls = @ + (IF tm.cb THEN 1 ELSE 0),
                       !.cbEarly = @ \/ (tm.cb /\ now < tm.set + tm.delay)]
         /\ timers' = timers (-) SetToBag({tm})
    /\ last' = [op |-> "animEnd"]
    /\ UNCHANGED <<notifs, containers, now, loadVars, themeVars, envVars,
                   dropVars, tabVars, counter, collapse>>

\* a host script calls animate(HostEl, animation, duration, callback) on the
\* exported animationUtils ("shared") or on an instance of its own ("own")
CallAnimate(instance, animation, duration, cb) ==
    /\ loadpc = "done"
    /\ anim.hostCalls < MaxHostCalls
    /\ LET chain == IF instance = "shared" THEN anim.chain ELSE <<>>
           eff == AnimateVia(chain, HostEl, animation, duration, cb)
           a1 == [anim EXCEPT !.hostCalls = @ + 1]
           A == ApplyEffect(a1, timers, HostEl, eff, now)
       IN /\ anim' = A.anim
          /\ timers' = A.timers
          /\ last' = [op |-> "animate", instance |-> instance,
                      animation |-> animation, cb |-> cb,
                      warned |-> eff.warn, styled |-> eff.styled,
                      timer |-> eff.timer, cbNow |-> eff.cbNow]
    /\ UNCHANGED <<notifs, containers, now, loadVars, themeVars, envVars,
                   dropVars, tabVars, counter, collapse>>

HostAnimations == {"fadeIn", "slideUp", "bounce", "zoom"}
\* the data-animate, data-animate-duration and data-animate-delay attributes
AttrChoices ==
    {[animation |-> "fadeIn", duration |-> ScrollDefaultDuration, delay |-> 0],
     [animation |-> "fadeIn", duration |-> DefaultDuration, delay |-> DismissDelay],
     [animation |-> "bounce", duration |-> BounceDuration, delay |-> DismissDelay]}

\* a page with some data-counter elements and one data-animate element
InitAnimate ==
    /\ InitPage
    /\ storage = [k \in Keys |-> NoEntry]
    /\ ~prefersDark
    /\ btnPresent = {}
    /\ DropdownsAtRest /\ TabsAtRest /\ NotifsAtRest /\ CounterAtRest
    /\ CollapseAtRest
    /\ \E k \in 0..NCounters, at \in AttrChoices, seen \in BOOLEAN :
         anim = [AnimRest EXCEPT
                   !.counters = 1..k,
                   !.animEls = {AnimEl},
                   !.attrs = at,
                   !.inView = IF seen THEN (1..k) \cup {AnimEl} ELSE {}]

\* host scripts animate an element by hand
AnimateNext ==
    \/ Load
    \/ \E ins \in {"shared", "own"}, an \in HostAnimations,
          d \in {DefaultDuration}, cb \in BOOLEAN : CallAnimate(ins, an, d, cb)
    \/ FireAnimEnd(HostEl)
    \/ Tick

SpecAnimate == InitAnimate /\ [][AnimateNext]_vars

\* the user scrolls the page
ScrollNext ==
    \/ Load
    \/ \E el \in Counters \cup {AnimEl} : InitialReport(el)
    \/ \E el \in Counters \cup {AnimEl} : Scroll(el)
    \/ \E el \in Counters \cup {AnimEl} : FireScrollTimer(el)
    \/ Tick

\* the bundle runs and the document finishes parsing, time passes, observers
\* make their first report and elapsed timers fire
SpecScroll ==
    /\ InitAnimate
    /\ [][ScrollNext]_vars
    /\ WF_vars(Load)
    /\ WF_vars(Tick)
    /\ \A el \in Counters \cup {AnimEl} : WF_vars(InitialReport(el))
    /\ \A el \in Counters \cup {AnimEl} : WF_vars(FireScrollTimer(el))

\* C12: animate(element, name, duration, callback) with an unrecognized name
\* logs one warning, writes no style, schedules no timer and invokes the
\* callback exactly once before it returns.
C12_UnknownAnimation ==
    (last.op = "animate" /\ last.animation \notin AnimationNames /\ last.cb)
    => /\ last.warned = 1
       /\ ~last.styled
       /\ ~last.timer
       /\ last.cbNow = 1

\* the same for calls on an instance whose animate was not replaced
C12_UnknownAnimationOwnInstance ==
    (last.op = "animate" /\ last.instance = "own") => C12_UnknownAnimation

\* C13: a click on a data-tab element whose value names no existing panel
\* (like a click on a data-collapse-toggle whose value names no element)
\* changes no class, attribute or inline style of any tab, tab panel or
\* collapse target.
C13_MissingTargetNoOp ==
    (/\ last.op = "click"
     /\ last.target # NoTab
     /\ TargetOf(last.target) \notin Panels)
    => /\ tabActive = last.activeBefore
       /\ panelDisplay = last.displayBefore
       /\ CollapseAtRest

C14_Safety ==
    \A el \in Elements :
        /\ anim.calls[el] <= 1
        /\ anim.calls[el] = 1 => (el \in anim.reported /\ el \notin anim.early)

\* C14: for one animateOnScroll call the chosen animation is started exactly
\* once: after the element was first reported as intersecting and the
\* configured delay has passed, and never again, however often the element
\* later leaves and re-enters the viewport.
C14_ScrollAnimatesOnce ==
    /\ []C14_Safety
    /\ \A el \in Counters \cup {AnimEl} :
          (el \in anim.reported) ~> (anim.calls[el] = 1)

\* the data-animate element, declared with a delay, was animated and has
\* since left the viewport and come back
C14_Witness_Reentered ==
    /\ anim.calls[AnimEl] = 1
    /\ anim.config[AnimEl].delay > 0
    /\ AnimEl \in anim.reentered
    /\ AnimEl \in anim.inView

\* C15: every setTheme(t) call dispatches exactly one themeChanged event
\* with detail.theme = t, after the instance's current theme, the document
\* attribute and class and the storage entry were updated: a listener that
\* reads any of them during the event sees t.
C15_OneEventAfterUpdate ==
    /\ last.op = "setTheme" => (Len(events) = 1 /\ events[1].theme = last.arg)
    /\ last.op = "toggleTheme" => Len(events) = 1
    /\ last.op = "toggleTwice" => Len(events) = 2
    /\ \A k \in 1..Len(events) :
          /\ events[k].seenTheme = events[k].theme
          /\ events[k].seenAttr = events[k].theme
          /\ events[k].seenStore = events[k].theme
          /\ events[k].seenDark <=> (events[k].theme = "dark")

\* setTheme('dark') has just run while the document and the storage held
\* another theme
C15_Witness_EventSeesNewTheme ==
    /\ last.op = "setTheme"
    /\ last.arg = "dark"
    /\ last.before = "light"
    /\ Len(events) = 1
    /\ events[1].seenStore = "dark"
    /\ events[1].seenAttr = "dark"

----------------------------------------------------------------------------
(* Instances constructed by host scripts                                   *)

HostOptions ==
    [enableDarkMode : BOOLEAN, autoDetectPreference : BOOLEAN, storageKey : Keys]

HostInstances == {i \in 1..Len(insts) : insts[i].origin = "host"}

\* a host script runs new UnifiedTheme(options)
HostConstruct(opts) ==
    /\ loadpc = "done"
    /\ Cardinality(HostInstances) < MaxHostInstances
    /\ Commit(Construct(World, "host", opts, prefersDark, btnPresent))
    /\ last' = [op |-> "construct", opts |-> opts, storeBefore |-> storage,
                attrBefore |-> dataTheme, darkBefore |-> darkClass]
    /\ UNCHANGED <<loadVars, envVars, widgetVars>>

ConstructNext ==
    \/ Load
    \/ \E opts \in HostOptions : HostConstruct(opts)
    \/ MediaChange

SpecConstruct == InitTheme /\ [][ConstructNext]_vars

\* C16: on construction with enableDarkMode, a non-empty stored value under
\* storageKey becomes the theme; otherwise, with autoDetectPreference, the
\* theme follows the system preference; otherwise, or without
\* enableDarkMode, the theme stays 'light' and construction writes no
\* storage, changes nothing on the document and dispatches no event.
C16_ConstructionTheme ==
    last.op = "construct" =>
        LET i == Len(insts)
            o == last.opts
            saved == last.storeBefore[o.storageKey]
        IN IF o.enableDarkMode /\ Truthy(saved)
           THEN GetTheme(i) = saved
           ELSE IF o.enableDarkMode /\ o.autoDetectPreference
                THEN GetTheme(i) = IF prefersDark THEN "dark" ELSE "light"
                ELSE /\ GetTheme(i) = "light"
                     /\ storage = last.storeBefore
                     /\ dataTheme = last.attrBefore
                     /\ darkClass = last.darkBefore
                     /\ events = <<>>

\* an instance was constructed with a custom storage key that held 'dark'
\* on a system that prefers light, and took 'dark'
C16_Witness_SavedWins ==
    /\ last.op = "construct"
    /\ last.opts = [enableDarkMode |-> TRUE, autoDetectPreference |-> TRUE,
                    storageKey |-> CustomKey]
    /\ last.storeBefore[CustomKey] = "dark"
    /\ ~prefersDark
    /\ GetTheme(Len(insts)) = "dark"

\* C17: a click on any data-theme-toggle element flips the theme between
\* light and dark, whether the element was in the document when the instance
\* was constructed or was added afterwards.
C17_ToggleClickFlips ==
    last.op = "buttonClick" =>
        /\ last.before = "light" => dataTheme = "dark"
        /\ last.before = "dark" => dataTheme = "light"

\* C18: an element with data-animate=A and data-animate-duration=D that
\* enters the viewport is animated by animation A with duration D, after
\* data-animate-delay, whatever other elements the page contains, data-counter
\* elements included.
C18_AnimatedAsDeclared ==
    (anim.calls[AnimEl] >= 1 /\ anim.attrs.animation \in AnimationNames)
    => /\ anim.runs[AnimEl] = 1
       /\ anim.lastRun[AnimEl] = [animation |-> anim.attrs.animation,
                                  duration |-> anim.attrs.duration,
                                  args |-> <<>>]
       /\ AnimEl \notin anim.early

\* the same on a page without data-counter elements
C18_AsDeclaredWithoutCounters ==
    anim.counters = {} => C18_AnimatedAsDeclared

----------------------------------------------------------------------------
(* Collapse                                                                *)

CollapseState == [collapse |-> collapse, timers |-> timers]

CollapseTimers(tms) == {tm \in BagToSet(tms) : tm.kind \in {"expandEnd", "collapseEnd"}}

\* ---- mutant: the timer of the expanding branch leaves the pixel height
ExpandEnd_KeepsHeight(c) == [c EXCEPT !.collapsing = FALSE]

\* the timer callback of the expanding branch
ExpandEnd(c) == [c EXCEPT !.collapsing = FALSE, !.height = ""]

\* ---- mutant: the timer of the collapsing branch forgets class 'collapsed'
CollapseEnd_NoClass(c) ==
    [c EXCEPT !.display = "none", !.collapsing = FALSE, !.height = ""]

\* the timer callback of the collapsing branch
CollapseEnd(c) ==
    [c EXCEPT !.display = "none", !.collapsing = FALSE, !.collapsed = TRUE,
              !.height = ""]

\* toggleCollapse(element) at time t; solo remembers the state a call found
\* when no collapse timer was pending, branch the branch the call took
ToggleCollapse(C, t) ==
    LET c == C.collapse
        isCollapsed == c.display = "none" \/ c.collapsed
        solo == IF CollapseTimers(C.timers) = {}
                THEN (IF isCollapsed THEN "collapsed" ELSE "expanded")
                ELSE "none"
        tm(kind) == [kind |-> kind, n |-> c.toggles + 1, due |-> t + DismissDelay]
    IN IF isCollapsed
       THEN [collapse |-> [c EXCEPT !.display = "block", !.collapsed = FALSE,
                                    !.collapsing = TRUE, !.height = "<px>",
                                    !.toggles = @ + 1, !.solo = solo,
                                    !.branch = "expand"],
             timers |-> C.timers (+) SetToBag({tm("expandEnd")})]
       ELSE [collapse |-> [c EXCEPT !.collapsing = TRUE, !.height = "0",
                                    !.toggles = @ + 1, !.solo = solo,
                                    !.branch = "collapse"],
             timers |-> C.timers (+) SetToBag({tm("collapseEnd")})]

\* the document click listener setupCollapseToggle() registers; found says
\* whether getElementById(data-collapse-toggle) finds the target
CollapseClickListener(C, found, t) ==
    IF found THEN ToggleCollapse(C, t) ELSE C

RECURSIVE RunCollapseListeners(_, _, _, _)
RunCollapseListeners(C, ls, found, t) ==
    IF ls = <<>> THEN C
    ELSE RunCollapseListeners(CollapseClickListener(C, found, t), Tail(ls), found, t)

\* one click on a data-collapse-toggle element, dispatched to every collapse
\* listener on the document
ClickCollapseToggle(found) ==
    /\ Idle
    /\ LET ls == ListenersOf(docClick, "collapse")
           C == RunCollapseListeners(CollapseState, ls, found, now)
       IN /\ C.collapse.toggles <= MaxToggles
          /\ collapse' = C.collapse
          /\ timers' = C.timers
          /\ last' = [op |-> "collapseClick", found |-> found, runs |-> Len(ls),
                      before |-> collapse]
    /\ UNCHANGED <<notifs, containers, now, loadVars, themeVars, envVars,
                   dropVars, tabVars, counter, anim>>

\* a host script calls toggleCollapse(element) on an instance
CallToggleCollapse(i) ==
    /\ i \in HostReachable
    /\ collapse.toggles < MaxToggles
    /\ LET C == ToggleCollapse(CollapseState, now)
       IN /\ collapse' = C.collapse
          /\ timers' = C.timers
    /\ last' = [op |-> "toggleCollapse"]
    /\ UNCHANGED <<notifs, containers, now, loadVars, themeVars, envVars,
                   dropVars, tabVars, counter, anim>>

\* the oldest pending collapse timer fires once its delay has passed
FireCollapseTimer ==
    /\ \E tm \in CollapseTimers(timers) :
         /\ tm.due <= now
         /\ \A other \in CollapseTimers(timers) : tm.n <= other.n
         /\ collapse' = IF tm.kind = "expandEnd" THEN ExpandEnd(collapse)
                        ELSE CollapseEnd(collapse)
         /\ timers' = timers (-) SetToBag({tm})
         /\ last' = [op |-> "collapseTimer", kind |-> tm.kind]
    /\ UNCHANGED <<notifs, containers, now, loadVars, themeVars, envVars,
                   dropVars, tabVars, counter, anim>>

\* the collapse target as the markup declares it
InitCollapse ==
    /\ InitPage
    /\ storage = [k \in Keys |-> NoEntry]
    /\ ~prefersDark
    /\ btnPresent = {}
    /\ DropdownsAtRest /\ TabsAtRest /\ NotifsAtRest /\ CounterAtRest /\ AnimAtRest
    /\ \E d \in {"", "none", "block"}, cl \in BOOLEAN :
         collapse = [display |-> d, collapsed |-> cl, collapsing |-> FALSE,
                     height |-> "", toggles |-> 0, solo |-> "none",
                     branch |-> "none"]

CollapseNext ==
    \/ Load
    \/ \E found \in BOOLEAN : ClickCollapseToggle(found)
    \/ \E i \in 1..Len(insts) : CallToggleCollapse(i)
    \/ FireCollapseTimer
    \/ Tick

SpecCollapse ==
    /\ InitCollapse
    /\ [][CollapseNext]_vars
    /\ WF_vars(Load)
    /\ WF_vars(Tick)
    /\ WF_vars(FireCollapseTimer)

CollapsePending == CollapseTimers(timers) # {}

C19_Safety ==
    ~CollapsePending =>
        /\ collapse.solo = "collapsed" =>
              /\ collapse.display = "block"
              /\ ~collapse.collapsed /\ ~collapse.collapsing
              /\ collapse.height = ""
        /\ collapse.solo = "expanded" =>
              /\ collapse.display = "none"
              /\ collapse.collapsed /\ ~collapse.collapsing
              /\ collapse.height = ""

\* C19: a single toggleCollapse on an element with no collapse timer pending
\* moves it to the opposite state once the timer has fired: a collapsed
\* element ends displayed, without classes 'collapsed' and 'collapsing' and
\* with empty inline height; an expanded one ends with display 'none', class
\* 'collapsed', no class 'collapsing' and empty inline height.
C19_SingleToggleFlips ==
    /\ []C19_Safety
    /\ CollapsePending ~> ~CollapsePending

\* a single call found the element collapsed, and its timer has fired
C19_Witness_Expanded ==
    /\ last.op = "collapseTimer"
    /\ ~CollapsePending
    /\ collapse.solo = "collapsed"
    /\ collapse.toggles = 1
    /\ collapse.display = "block"

\* C20: after any sequence of toggleCollapse calls on one element, at
\* arbitrary times, once every pending timer has fired the element has no
\* class 'collapsing', an empty inline height, and display 'none' exactly
\* when it has class 'collapsed'.
C20_ConsistentRest ==
    (collapse.toggles >= 1 /\ ~CollapsePending) =>
        /\ ~collapse.collapsing
        /\ collapse.height = ""
        /\ collapse.display = "none" <=> collapse.collapsed

\* three overlapping calls have all had their timers fire
C20_Witness_Overlapped ==
    /\ collapse.toggles = MaxToggles
    /\ collapse.solo = "none"
    /\ ~CollapsePending
    /\ last.op = "collapseTimer"

\* C21: after any sequence of toggleCollapse calls on one element, once
\* every timer has fired the element rests in the state the last call asked
\* for: expanded after the expand branch, collapsed after the collapse branch.
C21_LastCallWins ==
    (collapse.toggles >= 1 /\ ~CollapsePending) =>
        /\ collapse.branch = "expand" =>
              (collapse.display # "none" /\ ~collapse.collapsed)
        /\ collapse.branch = "collapse" =>
              (collapse.display = "none" /\ collapse.collapsed)

C22_LateTimerNoOp ==
    (last.op = "timer" /\ last.kind = "autoDismiss" /\ ~last.wasInDOM) =>
        /\ notifs = last.before
        /\ BagCardinality(timers) = last.pendingBefore - 1

\* C22: an auto-dismiss timer that fires after its notification was removed
\* from the document changes nothing (no style, no further timer, no node
\* removed or inserted), and a removed notification never returns to the
\* document.
C22_RemovedStaysRemoved ==
    /\ []C22_LateTimerNoOp
    /\ [][\A n \in 1..Len(notifs) : ~notifs[n].inDOM => ~notifs'[n].inDOM]_vars

\* the auto-dismiss timer of a notification has just fired after the
\* notification was closed by hand and removed
C22_Witness_TimerAfterRemoval ==
    /\ last.op = "timer"
    /\ last.kind = "autoDismiss"
    /\ ~last.wasInDOM
    /\ notifs[last.n].closeClicked

C23_Safety ==
    \A n \in 1..Len(notifs) :
        \* an alert that was never clicked and has no auto-dismiss stays
        /\ (notifs[n].clicks = 0 /\ notifs[n].duration = 0) => notifs[n].inDOM
        \* a clicked alert without auto-dismiss goes after the delay, not before
        /\ (notifs[n].clicks > 0 /\ notifs[n].duration = 0 /\ ~notifs[n].inDOM)
              => now >= notifs[n].clickedAt + DismissDelay

\* C23: a click on the .alert-close element of an alert leads to that alert,
\* and only that alert, being removed from the document after the 300 ms
\* delay; repeated clicks before the removal remove no other node and leave
\* the alert removed.
C23_CloseRemovesThatAlert ==
    /\ []C23_Safety
    /\ \A n \in 1..MaxNotifs :
          (Exists(n) /\ notifs[n].clicks > 0) ~> (Exists(n) /\ ~notifs[n].inDOM)
    /\ [][\A n \in 1..Len(notifs) :
            (notifs[n].inDOM /\ ~notifs'[n].inDOM) =>
                /\ notifs[n].dismissing
                /\ \A m \in 1..Len(notifs) : m # n => notifs'[m] = notifs[m]]_vars

\* the close button of one alert was clicked twice before the alert went;
\* the other alert, never clicked and without auto-dismiss, is still there
C23_Witness_ClickedTwice ==
    \E n, m \in 1..Len(notifs) :
        /\ n # m
        /\ notifs[n].clicks >= 2 /\ ~notifs[n].inDOM
        /\ BagCardinality(timers) = 0
        /\ notifs[m].clicks = 0 /\ notifs[m].duration = 0 /\ notifs[m].inDOM

----------------------------------------------------------------------------
(* The transition methods called directly                                  *)

TransitionMethods ==
    {"fadeIn", "fadeOut", "slideDown", "slideUp", "scaleIn", "scaleOut"}
MethodDurations == {DefaultDuration, ScrollDefaultDuration}

\* ---- mutant: fadeIn and scaleIn run the callback at once
TransitionMethod_CallbackNow(method, duration, cb) ==
    [kind |-> "method", animation |-> method, duration |-> duration,
     args |-> <<>>, styled |-> TRUE,
     timer |-> method \notin {"fadeIn", "scaleIn"},
     cbNow |-> IF cb /\ method \in {"fadeIn", "scaleIn"} THEN 1 ELSE 0,
     cbLater |-> cb /\ method \notin {"fadeIn", "scaleIn"},
     warn |-> 0]

\* what fadeIn .. scaleOut(element, duration, callback) do: styles are
\* written at once; fadeIn and scaleIn set the timer only for a callback, the
\* others always (their timer also finishes the styles)
TransitionMethod(method, duration, cb) ==
    [kind |-> "method", animation |-> method, duration |-> duration,
     args |-> <<>>, styled |-> TRUE,
     timer |-> IF method \in {"fadeIn", "scaleIn"} THEN cb ELSE TRUE,
     cbNow |-> 0, cbLater |-> cb, warn |-> 0]

\* a host script calls one of the transition methods on HostEl
CallMethod(method, duration, cb) ==
    /\ loadpc = "done"
    /\ anim.hostCalls < MaxHostCalls
    /\ LET eff == TransitionMethod(method, duration, cb)
           pendingCb == \E tm \in BagToSet(timers) : tm.kind = "animEnd" /\ tm.cb
           a1 == [anim EXCEPT
                    !.hostCalls = @ + 1,
                    !.cbExpected = @ + (IF cb THEN 1 ELSE 0),
                    !.cbEarly = @ \/ (eff.cbNow > 0 /\ duration > 0),
                    !.overlap = @ \/ (cb /\ pendingCb)]
           A == ApplyEffect(a1, timers, HostEl, eff, now)
       IN /\ anim' = A.anim
          /\ timers' = A.timers
    /\ last' = [op |-> "method", method |-> method, cb |-> cb]
    /\ UNCHANGED <<notifs, containers, now, loadVars, themeVars, envVars,
                   dropVars, tabVars, counter, collapse>>

MethodsNext ==
    \/ Load
    \/ \E me \in TransitionMethods, d \in MethodDurations, cb \in BOOLEAN :
          CallMethod(me, d, cb)
    \/ FireAnimEnd(HostEl)
    \/ Tick

\* the page content plays no part here
InitMethods ==
    /\ InitPage
    /\ storage = [k \in Keys |-> NoEntry]
    /\ ~prefersDark
    /\ btnPresent = {}
    /\ DropdownsAtRest /\ TabsAtRest /\ NotifsAtRest /\ CounterAtRest
    /\ AnimAtRest /\ CollapseAtRest

SpecMethods ==
    /\ InitMethods
    /\ [][MethodsNext]_vars
    /\ WF_vars(Load)
    /\ WF_vars(Tick)
    /\ WF_vars(FireAnimEnd(HostEl))

\* the completion timers that carry a callback
PendingCallbacks ==
    LET S == {tm \in BagToSet(timers) : tm.kind = "animEnd" /\ tm.cb}
        B == [tm \in S |-> CopiesIn(tm, timers)]
    IN BagCardinality(B)

C24_Safety ==
    /\ anim.cbCalls + PendingCallbacks = anim.cbExpected
    /\ ~anim.cbEarly

\* C24: for each call of fadeIn .. scaleOut with a callback and duration d
\* the callback is invoked exactly once, not before d has elapsed, also when
\* another animation is started on the element in the meantime.
C24_CallbackOnce ==
    /\ []C24_Safety
    /\ (PendingCallbacks > 0) ~> (PendingCallbacks = 0)

\* two calls with callbacks overlapped on the element and both callbacks ran
C24_Witness_Overlap ==
    /\ anim.overlap
    /\ anim.cbExpected = 2
    /\ anim.cbCalls = 2

----------------------------------------------------------------------------
(* The system preference on a page with nothing stored                     *)

\* nothing usable is stored: no entry, or an empty string
InitPreference ==
    /\ InitTheme
    /\ ~Truthy(storage[DefaultKey])

\* the bundle loads, buttons appear, the system preference changes; no
\* script and no user sets or toggles the theme
PreferenceNext ==
    \/ Load
    \/ \E b \in Buttons : AddButton(b)
    \/ MediaChange

SpecPreference == InitPreference /\ [][PreferenceNext]_vars

\* C25: with autoDetectPreference and no theme stored at startup, a later
\* change of the system colour-scheme preference, with no setTheme or
\* toggleTheme call in between, sets the current theme to the new preference.
C25_FollowsPreference ==
    (last.op = "mediaChange" /\ Len(insts) >= 1) =>
        LET t == IF prefersDark THEN "dark" ELSE "light"
        IN /\ \A i \in 1..Len(insts) : GetTheme(i) = t
           /\ dataTheme = t

C26_Safety ==
    \A k \in anim.counters :
        /\ anim.runs[k] <= 1
        /\ anim.calls[k] = anim.runs[k]
        /\ anim.runs[k] = 1 =>
              /\ k \in anim.reported
              /\ anim.lastRun[k].animation = "counter"
              /\ anim.lastRun[k].args =
                    <<CounterAttrs(k).start, CounterAttrs(k).end, CounterAttrs(k).duration>>

\* C26: on a page with N >= 1 data-counter elements each counter, when it
\* is first reported in the viewport, runs animateCounter with its own
\* data-counter-start, -end and -duration values, and runs it exactly once.
C26_CountersRunOwnValues ==
    /\ []C26_Safety
    /\ \A k \in Counters : (k \in anim.reported) ~> (anim.runs[k] = 1)

\* the two counters of a page have both run; one of them is in view
C26_Witness_BothRan ==
    /\ anim.counters = {1, 2}
    /\ anim.runs[1] = 1 /\ anim.runs[2] = 1
    /\ last.op = "scrollTimer"
    /\ 1 \in anim.inView /\ 2 \notin anim.inView

====
